---- MODULE Spec2Model ----
(***************************************************************************)
(* KrishiVue inference services.                                           *)
(*                                                                         *)
(* The repository ships two programs:                                      *)
(*   main.py            GET /hello, POST /predictCrop,                     *)
(*                      POST /predictCropDisease (model called in-process) *)
(*   main-tf-serving.py GET /hello, POST /predict (model called over HTTP) *)
(* A behaviour is a run of one of them (variable program).  Both are       *)
(* served by one asyncio event loop (uvicorn.run(app, ...)): an            *)
(* "async def" handler runs without interruption except at an await, and   *)
(* a synchronous call made by a handler keeps the loop, and with it every  *)
(* other handler of the process, waiting until the call returns.           *)
(*                                                                         *)
(* Arrays are modelled by their shape, score vectors by sequences of       *)
(* integers 0..MaxScore (a score s stands for the probability              *)
(* s / MaxScore); Python's 0-based index i is position i + 1 of a          *)
(* sequence.                                                               *)
(***************************************************************************)
EXTENDS Integers, Sequences, FiniteSets, TLC

\* ------------------------------------------------------------------ bounds
\* Scores are drawn from 0..MaxScore.
MaxScore == 1
\* Requests a process handles at the same time.
NumReqs == 2

\* --------------------------------------------------------------- constants
\* The serving URL (main-tf-serving.py).
ENDPOINT_URL == "http://localhost:8501/v1/models/krishiVue:predict"

\* CLASS_NAMES as the two programs set it at import.
CLASS_NAMES_0 ==
    <<"Potato___Early_blight", "Potato___healthy", "POTATO__Late_blight">>

\* cropNameDict as main.py sets it at import: keys 0..21.
cropNameDict_0 ==
    [k \in 0..21 |->
        CASE k = 0 -> "apple"        [] k = 1 -> "banana"
          [] k = 2 -> "blackgram"    [] k = 3 -> "chickpea"
          [] k = 4 -> "coconut"      [] k = 5 -> "coffee"
          [] k = 6 -> "cotton"       [] k = 7 -> "grapes"
          [] k = 8 -> "jute"         [] k = 9 -> "kidneybeans"
          [] k = 10 -> "lentil"      [] k = 11 -> "maize"
          [] k = 12 -> "mango"       [] k = 13 -> "mothbeans"
          [] k = 14 -> "mungbean"    [] k = 15 -> "muskmelon"
          [] k = 16 -> "orange"      [] k = 17 -> "papaya"
          [] k = 18 -> "pigeonpeas"  [] k = 19 -> "pomegranate"
          [] k = 20 -> "rice"        [] k = 21 -> "watermelon"]

VARIABLES
    program,        \* "main" or "tf_serving": which of the two programs runs
    MODEL,          \* main.py: handle of the loaded disease model
    CropPredictionModel, \* main.py: handle of the loaded crop classifier
    CLASS_NAMES,    \* the label table (a module-level list)
    cropNameDict,   \* main.py: the crop table (a module-level dict)
    endpoint,       \* main-tf-serving.py: the serving URL
    pc,             \* pc[r]: "idle" | "reading" (at await file.read())
                    \*        | "posting" (inside requests.post)
    data,           \* data[r]: the upload request r carries
    outbound,       \* the POSTs sent to the serving endpoint and not answered
    last            \* what the step just taken answered to a client: the
                    \* route, the upload, what the invoker was sent and what
                    \* it returned, and the response (NoEvent: no answer)

vars == <<program, MODEL, CropPredictionModel, CLASS_NAMES, cropNameDict,
          endpoint, pc, data, outbound, last>>

globals == <<MODEL, CropPredictionModel, CLASS_NAMES, cropNameDict, endpoint>>

Reqs == 1..NumReqs

\* ------------------------------------------------------------------ inputs
\* What a client uploads: a body whose read fails, bytes that are no valid
\* image encoding (no image at all, or a truncated one), a greyscale (mode L)
\* image, an RGB image.
Uploads == {"read_error", "not_image", "image_L", "image_RGB"}

NoData == "none"

RECURSIVE SeqsOfLen(_, _)
SeqsOfLen(S, n) ==
    IF n = 0 THEN {<<>>}
    ELSE {Append(s, x) : s \in SeqsOfLen(S, n - 1), x \in S}

\* Lengths of the score vectors a model or the serving endpoint may return:
\* none, fewer than the label table has entries, as many, one more.
Lens == 0..(Len(CLASS_NAMES_0) + 1)

\* The score vectors a model or the serving endpoint may return.
Vectors == UNION {SeqsOfLen(0..MaxScore, n) : n \in Lens}

Reverse(v) == [i \in 1..Len(v) |-> v[Len(v) + 1 - i]]

\* What MODEL.predict(img_batch) does: it raises, or returns a batch of one
\* score vector.
ModelOutputs ==
    {[raised |-> TRUE, value |-> <<>>]}
      \cup {[raised |-> FALSE, value |-> <<v>>] : v \in Vectors}

\* The bodies the serving endpoint may answer with: no JSON, a JSON object
\* without "predictions", or one with a list of score vectors.
Bodies ==
    {[json |-> FALSE, keys |-> {}, predictions |-> <<>>],
     [json |-> TRUE, keys |-> {"error"}, predictions |-> <<>>],
     [json |-> TRUE, keys |-> {"predictions"}, predictions |-> <<>>]}
      \cup {[json |-> TRUE, keys |-> {"predictions"}, predictions |-> <<v>>] :
                v \in Vectors}
      \cup {[json |-> TRUE, keys |-> {"predictions"},
             predictions |-> <<v, Reverse(v)>>] :
                v \in {w \in Vectors : Len(w) = Len(CLASS_NAMES_0)}}

\* How requests.post(endpoint, json=...) ends: it raises (no connection), or
\* returns a response with a status and a body.
Replies ==
    {[connected |-> FALSE, status |-> 0,
      body |-> [json |-> FALSE, keys |-> {}, predictions |-> <<>>]]}
      \cup {[connected |-> TRUE, status |-> s, body |-> b] :
                s \in {200, 500}, b \in Bodies}

\* What CropPredictionModel.predict(reshaped_values) returns: a class index,
\* here also one below and one above the table.
ClassifierOutputs == (0 - 1)..22

\* --------------------------------------------------------------- responses
Success(class, confidence) ==
    [kind |-> "ok", status |-> 200, class |-> class, confidence |-> confidence,
     text |-> ""]

\* JSONResponse(content={"error": str(e)}, status_code=500)
ErrorResponse(msg) ==
    [kind |-> "error", status |-> 500, class |-> "", confidence |-> 0,
     text |-> msg]

\* An exception that leaves the handler.
Fault(exc) ==
    [kind |-> "fault", status |-> 0, class |-> "", confidence |-> 0,
     text |-> exc]

Greeting ==
    [kind |-> "ok", status |-> 200, class |-> "", confidence |-> 0,
     text |-> "Hello World"]

CropResponse(name) ==
    [kind |-> "ok", status |-> 200, class |-> "", confidence |-> 0,
     text |-> name]

NoEvent ==
    [route |-> "none", data |-> NoData, sent |-> <<>>,
     got |-> <<>>, resp |-> Fault("none")]

\* ---------------------------------------------------------- pure functions
\* read_file_as_image: np.array(Image.open(BytesIO(data))).  Image.open
\* raises on bytes that are no image (and np.array on a truncated one);
\* otherwise the array has the shape of the image's mode: (h, w) for mode L,
\* (h, w, 3) for RGB.
read_file_as_image(d) ==
    CASE d = "not_image" ->
           [raised |-> TRUE, exc |-> "UnidentifiedImageError", shape |-> <<>>]
      [] d = "image_L" ->
           [raised |-> FALSE, exc |-> "", shape |-> <<2, 2>>]
      [] d = "image_RGB" ->
           [raised |-> FALSE, exc |-> "", shape |-> <<2, 2, 3>>]

\* np.expand_dims(image, 0)
expand_dims(shape) == <<1>> \o shape

\* np.argmax: a left-to-right scan that keeps the first maximum; 0-based.
RECURSIVE argmax_scan(_, _, _)
argmax_scan(v, i, best) ==
    IF i > Len(v) THEN best
    ELSE argmax_scan(v, i + 1, IF v[i] > v[best] THEN i ELSE best)

\* Mutant of np_argmax: the last index of the maximum.
np_argmax_last(v) ==
    (CHOOSE i \in 1..Len(v) :
        /\ \A j \in 1..Len(v) : v[j] <= v[i]
        /\ \A j \in (i + 1)..Len(v) : v[j] < v[i]) - 1

np_argmax(v) == argmax_scan(v, 2, 1) - 1

\* np.max
RECURSIVE max_scan(_, _, _)
max_scan(v, i, m) ==
    IF i > Len(v) THEN m
    ELSE max_scan(v, i + 1, IF v[i] > m THEN v[i] ELSE m)

np_max(v) == max_scan(v, 2, v[1])

\* predicted_class = CLASS_NAMES[np.argmax(p)]; confidence = np.max(p);
\* return {class, confidence}.  np.argmax raises on an empty vector, the list
\* index raises past the end of the table.  The exception's name is returned
\* in a Fault, for the caller to catch or not.
select_result(p, names) ==
    IF Len(p) = 0 THEN Fault("ValueError")
    ELSE IF np_argmax(p) >= Len(names) THEN Fault("IndexError")
    ELSE Success(names[np_argmax(p) + 1], np_max(p))

\* The batch a handler passes to its invoker for upload d: none when the
\* read or the decoding raises.
img_batch(d) ==
    IF d = "read_error" \/ read_file_as_image(d).raised THEN <<>>
    ELSE <<expand_dims(read_file_as_image(d).shape)>>

\* main.py predict, lines 213-239, as it runs once the upload is read and
\* MODEL.predict, if reached, has answered mout (<<>> when not reached).
predict_try_body(d, mout, names) ==
    IF d = "read_error" THEN Fault("ClientDisconnect")
    ELSE IF read_file_as_image(d).raised THEN Fault(read_file_as_image(d).exc)
    ELSE IF mout[1].raised THEN Fault("ModelError")
    ELSE select_result(mout[1].value[1], names)

\* Mutant of predict_local: the handler without its try/except.
predict_local_uncaught(d, mout, names) == predict_try_body(d, mout, names)

\* except Exception as e: return JSONResponse({"error": str(e)}, 500)
predict_local(d, mout, names) ==
    IF predict_try_body(d, mout, names).kind = "fault"
    THEN ErrorResponse(predict_try_body(d, mout, names).text)
    ELSE predict_try_body(d, mout, names)

\* main-tf-serving.py predict, lines 111-114: nothing catches.
predict_remote_decode(d) ==
    IF d = "read_error" THEN Fault("ClientDisconnect")
    ELSE IF read_file_as_image(d).raised THEN Fault(read_file_as_image(d).exc)
    ELSE Success("", 0)

\* Mutant of predict_remote_finish: the last row of "predictions" is used.
predict_remote_finish_lastrow(reply, names) ==
    IF ~reply.connected THEN Fault("ConnectionError")
    ELSE IF ~reply.body.json THEN Fault("JSONDecodeError")
    ELSE IF "predictions" \notin reply.body.keys THEN Fault("KeyError")
    ELSE IF Len(reply.body.predictions) = 0 THEN Fault("IndexError")
    ELSE select_result(
             reply.body.predictions[Len(reply.body.predictions)], names)

\* main-tf-serving.py predict, lines 123-135, from the return of
\* requests.post: the status is not looked at.
predict_remote_finish(reply, names) ==
    IF ~reply.connected THEN Fault("ConnectionError")
    ELSE IF ~reply.body.json THEN Fault("JSONDecodeError")
    ELSE IF "predictions" \notin reply.body.keys THEN Fault("KeyError")
    ELSE IF Len(reply.body.predictions) = 0 THEN Fault("IndexError")
    ELSE select_result(reply.body.predictions[1], names)

\* Mutant of predictCrop_lookup: the table indexed as a list, where a
\* negative index counts from the end, and a default past the end.
predictCrop_lookup_unchecked(idx, table) ==
    IF idx \in DOMAIN table THEN CropResponse(table[idx])
    ELSE IF idx < 0 THEN CropResponse(table[idx + Cardinality(DOMAIN table)])
    ELSE CropResponse("unknown")

\* main.py predictCrop, line 183: cropNameDict[float(prediction)], a dict
\* lookup, which raises KeyError for a key the dict does not hold.
predictCrop_lookup(idx, table) ==
    IF idx \in DOMAIN table THEN CropResponse(table[idx])
    ELSE Fault("KeyError")

\* Mutant of file_read: the upload is kept in one buffer the requests
\* share, so a handler reads the upload of the request that holds it.
file_read_shared(r) == data[CHOOSE q \in Reqs : pc[q] = "reading"]

\* await file.read() of request r
file_read(r) == data[r]

\* Whether the event loop is held by a synchronous call that has not
\* returned: requests.post in main-tf-serving.py.
Blocked == \E q \in Reqs : pc[q] = "posting"

\* -------------------------------------------------------------------- Init
Init ==
    /\ program \in {"main", "tf_serving"}
    /\ MODEL = IF program = "main" THEN "../Trained Model/1" ELSE "unset"
    /\ CropPredictionModel =
         IF program = "main"
         THEN "../Crop Prediction Model/CropPredictionModel.joblib"
         ELSE "unset"
    /\ CLASS_NAMES = CLASS_NAMES_0
    /\ cropNameDict = IF program = "main" THEN cropNameDict_0 ELSE <<>>
    /\ endpoint = IF program = "tf_serving" THEN ENDPOINT_URL ELSE "unset"
    /\ pc = [r \in Reqs |-> "idle"]
    /\ data = [r \in Reqs |-> NoData]
    /\ outbound = <<>>
    /\ last = NoEvent

\* ----------------------------------------------------------------- actions
\* GET /hello (both programs): no await, so the handler runs in one step
\* when the loop is free.
Hello ==
    /\ ~Blocked
    /\ last' = [route |-> "hello", data |-> NoData, sent |-> <<>>,
                got |-> <<>>, resp |-> Greeting]
    /\ UNCHANGED <<program, globals, pc, data, outbound>>

\* POST /predictCrop (main.py): the classifier answers idx.
PredictCrop(idx) ==
    /\ program = "main"
    /\ last' = [route |-> "predictCrop", data |-> NoData,
                sent |-> <<>>, got |-> <<idx>>,
                resp |-> predictCrop_lookup(idx, cropNameDict)]
    /\ UNCHANGED <<program, globals, pc, data, outbound>>

\* POST /predictCropDisease or /predict arrives with upload d: the handler
\* starts and waits at await file.read().
Start(r, d) ==
    /\ ~Blocked
    /\ pc[r] = "idle"
    /\ pc' = [pc EXCEPT ![r] = "reading"]
    /\ data' = [data EXCEPT ![r] = d]
    /\ last' = NoEvent
    /\ UNCHANGED <<program, globals, outbound>>

\* Mutant of ResumeLocal: on an upload that cannot be decoded the handler
\* waits for more bytes instead of raising.
ResumeLocal_waits(r, mout) ==
    /\ program = "main"
    /\ pc[r] = "reading"
    /\ img_batch(data[r]) = <<>> => mout = [raised |-> TRUE, value |-> <<>>]
    /\ IF img_batch(data[r]) = <<>>
       THEN /\ last' = NoEvent
            /\ UNCHANGED <<pc, data>>
       ELSE /\ last' = [route |-> "predictCropDisease", data |-> data[r],
                        sent |-> img_batch(data[r]), got |-> <<mout>>,
                        resp |-> predict_local(data[r], <<mout>>, CLASS_NAMES)]
            /\ pc' = [pc EXCEPT ![r] = "idle"]
            /\ data' = [data EXCEPT ![r] = NoData]
    /\ UNCHANGED <<program, globals, outbound>>

\* What MODEL.predict answered, if the handler got to call it for upload d.
model_answer(d, mout) == IF img_batch(d) = <<>> THEN <<>> ELSE <<mout>>

\* The value mout has in a step that does not call MODEL.predict.
NotCalled == [raised |-> TRUE, value |-> <<>>]

\* main.py predict from the return of file.read() to the handler's return;
\* MODEL.predict, if called, answers mout.
ResumeLocal(r, mout) ==
    /\ program = "main"
    /\ pc[r] = "reading"
    /\ img_batch(file_read(r)) = <<>> => mout = NotCalled
    /\ last' = [route |-> "predictCropDisease",
                data |-> file_read(r), sent |-> img_batch(file_read(r)),
                got |-> model_answer(file_read(r), mout),
                resp |-> predict_local(file_read(r),
                                       model_answer(file_read(r), mout),
                                       CLASS_NAMES)]
    /\ pc' = [pc EXCEPT ![r] = "idle"]
    /\ data' = [data EXCEPT ![r] = NoData]
    /\ UNCHANGED <<program, globals, outbound>>

\* main-tf-serving.py predict from the return of file.read() to the call of
\* requests.post, which does not return in this step.
ResumeRemote(r) ==
    /\ program = "tf_serving"
    /\ ~Blocked
    /\ pc[r] = "reading"
    /\ IF predict_remote_decode(file_read(r)).kind = "fault"
       THEN /\ last' = [route |-> "predict", data |-> file_read(r),
                        sent |-> <<>>, got |-> <<>>,
                        resp |-> predict_remote_decode(file_read(r))]
            /\ pc' = [pc EXCEPT ![r] = "idle"]
            /\ data' = [data EXCEPT ![r] = NoData]
            /\ UNCHANGED outbound
       ELSE /\ outbound' =
                 <<[url |-> endpoint,
                    json |-> [instances |-> img_batch(file_read(r))[1]]]>>
            /\ pc' = [pc EXCEPT ![r] = "posting"]
            /\ last' = NoEvent
            /\ UNCHANGED data
    /\ UNCHANGED <<program, globals>>

\* requests.post returns or raises, and the handler runs to its end.
PostReturns(r, reply) ==
    /\ program = "tf_serving"
    /\ pc[r] = "posting"
    /\ last' = [route |-> "predict", data |-> data[r],
                sent |-> <<outbound[1].json.instances>>, got |-> <<reply>>,
                resp |-> predict_remote_finish(reply, CLASS_NAMES)]
    /\ outbound' = <<>>
    /\ pc' = [pc EXCEPT ![r] = "idle"]
    /\ data' = [data EXCEPT ![r] = NoData]
    /\ UNCHANGED <<program, globals>>

Next ==
    \/ Hello
    \/ \E idx \in ClassifierOutputs : PredictCrop(idx)
    \/ \E r \in Reqs, d \in Uploads : Start(r, d)
    \/ \E r \in Reqs, mout \in ModelOutputs : ResumeLocal(r, mout)
    \/ \E r \in Reqs : ResumeRemote(r)
    \/ \E r \in Reqs, reply \in Replies : PostReturns(r, reply)

Spec == Init /\ [][Next]_vars

\* Whether a request ends does not depend on the scores: for the runs in
\* which ending is looked at, the invokers answer with one value of each
\* outcome (they raise, they answer without scores, they answer with scores).
LiveModelOutputs ==
    {[raised |-> TRUE, value |-> <<>>],
     [raised |-> FALSE, value |-> <<<<0, 0, MaxScore>>>>]}

LiveReplies ==
    {r \in Replies :
        \/ ~r.connected
        \/ r.status = 500 /\ r.body.keys = {"error"}
        \/ r.status = 200 /\ r.body.predictions = <<<<0, 0, MaxScore>>>>}

LiveNext ==
    \/ Hello
    \/ \E idx \in {0, 22} : PredictCrop(idx)
    \/ \E r \in Reqs, d \in Uploads : Start(r, d)
    \/ \E r \in Reqs, mout \in LiveModelOutputs : ResumeLocal(r, mout)
    \/ \E r \in Reqs : ResumeRemote(r)
    \/ \E r \in Reqs, reply \in LiveReplies : PostReturns(r, reply)

\* The event loop runs a handler whose await has completed whenever the loop
\* is free (asyncio's ready queue is first in, first out).  Nothing makes a
\* client send a request or the serving endpoint answer one.
Fairness ==
    \A r \in Reqs :
        /\ WF_vars(\E mout \in LiveModelOutputs : ResumeLocal(r, mout))
        /\ SF_vars(ResumeRemote(r))

LiveSpec == Init /\ [][LiveNext]_vars /\ Fairness

\* ------------------------------------------------------------------ claims
Range(f) == {f[x] : x \in DOMAIN f}

PredictRoutes == {"predictCropDisease", "predict"}

StartupGlobals ==
    /\ CLASS_NAMES = CLASS_NAMES_0
    /\ program = "main" =>
         /\ MODEL = "../Trained Model/1"
         /\ CropPredictionModel =
              "../Crop Prediction Model/CropPredictionModel.joblib"
         /\ cropNameDict = cropNameDict_0
    /\ program = "tf_serving" => endpoint = ENDPOINT_URL

\* The rows of scores the invoker returned to the request of event ev: the
\* batch MODEL.predict returned, or the "predictions" of the endpoint's body.
Returned(ev) ==
    IF ev.route = "predictCropDisease" /\ ev.got # <<>>
    THEN (IF ev.got[1].raised THEN <<>> ELSE ev.got[1].value)
    ELSE IF ev.route = "predict" /\ ev.got # <<>>
    THEN (IF /\ ev.got[1].connected
             /\ ev.got[1].body.json
             /\ "predictions" \in ev.got[1].body.keys
          THEN ev.got[1].body.predictions ELSE <<>>)
    ELSE <<>>

\* i (0-based) is the first index at which v has its maximum.
IsFirstMax(v, i) ==
    /\ i + 1 \in 1..Len(v)
    /\ \A j \in 1..Len(v) : v[j] <= v[i + 1]
    /\ \A j \in 1..i : v[j] < v[i + 1]

\* C1: in both handlers, a request whose invoker returned a score vector of
\* as many entries as the label table is answered with class CLASS_NAMES[i]
\* and confidence scores[i], i the first index of the maximum; and the class
\* of every success response is an entry of the label table.
C1_FirstMaxSelected ==
    last.route \in PredictRoutes =>
      /\ last.resp.kind = "ok" =>
           /\ Returned(last) # <<>>
           /\ last.resp.class \in Range(CLASS_NAMES_0)
      /\ (Returned(last) # <<>> /\ Len(Returned(last)[1]) = 3) =>
           /\ last.resp.kind = "ok"
           /\ \E i \in 0..2 :
                /\ IsFirstMax(Returned(last)[1], i)
                /\ last.resp.class = CLASS_NAMES_0[i + 1]
                /\ last.resp.confidence = Returned(last)[1][i + 1]

\* C1 witness: /predict answered for scores whose maximum occurs twice.
C1_Witness ==
    /\ last.route = "predict"
    /\ last.resp.kind = "ok"
    /\ Returned(last) # <<>>
    /\ Returned(last)[1] = <<MaxScore, MaxScore, 0>>
    /\ last.resp.class = "Potato___Early_blight"

\* A failure at some stage of main.py's pipeline for event ev: the read, the
\* decoding, the model, argmax (no scores), the label lookup (an index past
\* the table).
LocalFailure(ev) ==
    \/ ev.data \in {"read_error", "not_image"}
    \/ ev.got # <<>> /\ ev.got[1].raised
    \/ /\ Returned(ev) # <<>>
       /\ \/ Len(Returned(ev)[1]) = 0
          \/ \E i \in 3..Len(Returned(ev)[1]) : IsFirstMax(Returned(ev)[1], i)

\* C2: every /predictCropDisease request in which a stage fails ends with
\* {"error": message} and status 500; none ends as a fault that leaves the
\* handler, and no failed one with a class and a confidence.
C2_LocalFailuresCaught ==
    last.route = "predictCropDisease" =>
      /\ last.resp.kind \in {"ok", "error"}
      /\ LocalFailure(last) =>
           /\ last.resp.kind = "error"
           /\ last.resp.status = 500
           /\ last.resp.text # ""
           /\ last.resp.class = ""
      /\ last.resp.kind = "error" => LocalFailure(last)

\* C2 witness: the model raised and the request ended with the error payload.
C2_Witness ==
    /\ last.route = "predictCropDisease"
    /\ last.got # <<>>
    /\ last.got[1].raised
    /\ last.resp = ErrorResponse("ModelError")

\* C3 (as claimed), here for the requests that upload a valid RGB image and
\* the answers whose first row of scores, if any, has 3 entries:
\* a /predict request whose POST ends in a connection
\* failure or in a status outside 200..299, or whose JSON body has no
\* "predictions", ends as a fault and never with a class and a confidence.
C3_RemoteFailuresFault ==
    (/\ last.route = "predict"
     /\ last.got # <<>>
     /\ last.data = "image_RGB"
     /\ Returned(last) # <<>> => Len(Returned(last)[1]) = 3) =>
      ((\/ ~last.got[1].connected
        \/ last.got[1].status \notin 200..299
        \/ last.got[1].body.json /\ "predictions" \notin last.got[1].body.keys)
         => last.resp.kind = "fault")

\* C4: /predictCrop answers {"prediction": cropNameDict[index]} for every
\* index 0..21 the classifier returns, and for every other index the lookup
\* raises and no prediction is returned.
C4_CheckedLookup ==
    last.route = "predictCrop" =>
      /\ last.got[1] \in 0..21 =>
           /\ last.resp.kind = "ok"
           /\ last.resp.text = cropNameDict_0[last.got[1]]
      /\ last.got[1] \notin 0..21 =>
           /\ last.resp.kind = "fault"
           /\ last.resp.text = "KeyError"

\* C4 witness: the classifier returned -1 and the request failed.
C4_Witness ==
    /\ last.route = "predictCrop"
    /\ last.got = <<0 - 1>>
    /\ last.resp.kind = "fault"

\* C5 (as claimed), here for the requests that upload a valid RGB image:
\* an image request whose score vector has not as many
\* entries as the label table never ends with a class and a confidence.
C5_LengthChecked ==
    (/\ last.route \in PredictRoutes
     /\ Returned(last) # <<>>
     /\ last.data = "image_RGB") =>
      (Len(Returned(last)[1]) # 3 => last.resp.kind # "ok")

\* C6 (as claimed): for an upload that is no valid image the invoker is not
\* called and the request fails, and every array handed to the batch adapter
\* has 3 dimensions, so every batch handed to an invoker has 4.
C6_DecoderContract ==
    /\ (last.route \in PredictRoutes /\ last.data = "not_image")
         => (last.sent = <<>> /\ last.got = <<>> /\ last.resp.kind # "ok")
    /\ \A i \in 1..Len(last.sent) : Len(last.sent[i]) = 4
    /\ \A i \in 1..Len(outbound) : Len(outbound[i].json.instances) = 4

\* C7 (as claimed): in every reachable state, also while an outbound serving
\* call has not returned, /hello is answered, with exactly the greeting, and
\* the process-wide objects keep their values.  The states looked at are
\* those in which every request in flight uploaded a valid RGB image.
C7_HelloAlwaysAnswered ==
    /\ (\A r \in Reqs : data[r] \in {NoData, "image_RGB"}) => ENABLED Hello
    /\ last.route = "hello" => last.resp = Greeting
    /\ StartupGlobals

\* C8: for the same score vector the two handlers return the same payload;
\* /predict uses the first row of "predictions" alone and posts the batch
\* under the key "instances".
C8_SamePayload ==
    /\ (last.route = "predictCropDisease" /\ last.resp.kind = "ok") =>
         last.resp =
           predict_remote_finish(
             [connected |-> TRUE, status |-> 200,
              body |-> [json |-> TRUE, keys |-> {"predictions"},
                        predictions |-> last.got[1].value]],
             CLASS_NAMES_0)
    /\ (last.route = "predict" /\ Returned(last) # <<>>) =>
         \/ last.resp =
              predict_local(
                last.data,
                <<[raised |-> FALSE, value |-> <<Returned(last)[1]>>]>>,
                CLASS_NAMES_0)
         \/ /\ last.resp.kind = "fault"
            /\ predict_local(
                 last.data,
                 <<[raised |-> FALSE, value |-> <<Returned(last)[1]>>]>>,
                 CLASS_NAMES_0) = ErrorResponse(last.resp.text)
    /\ \A i \in 1..Len(outbound) :
         /\ DOMAIN outbound[i].json = {"instances"}
         /\ outbound[i].url = ENDPOINT_URL

\* C8 witness: /predict answered from the first of two differing rows.
C8_Witness ==
    /\ last.route = "predict"
    /\ last.resp.kind = "ok"
    /\ Len(Returned(last)) = 2
    /\ Returned(last)[1] = <<0, 0, MaxScore>>
    /\ Returned(last)[2] = <<MaxScore, 0, 0>>
    /\ last.resp = Success("POTATO__Late_blight", MaxScore)

\* The response of a request handled alone, from the state after startup,
\* for upload d and the invoker's answer got.
SoloResponse(route, d, got) ==
    IF route = "predictCropDisease" THEN predict_local(d, got, CLASS_NAMES_0)
    ELSE IF got = <<>> THEN predict_remote_decode(d)
    ELSE predict_remote_finish(got[1], CLASS_NAMES_0)

\* C9: in every interleaving the process-wide objects keep their startup
\* values, a step that ends a request answers what that request would get
\* alone for its own upload and its invoker's answer, and no step of one
\* request changes another request.
C9_Independent ==
    /\ [](StartupGlobals)
    /\ [][\A r \in Reqs :
            /\ (pc[r] # "idle" /\ pc'[r] = "idle") =>
                 /\ last'.route \in PredictRoutes
                 /\ last'.data = data[r]
                 /\ last'.resp = SoloResponse(last'.route, data[r], last'.got)
            /\ (pc'[r] # pc[r] \/ data'[r] # data[r]) =>
                 \A q \in Reqs \ {r} : pc'[q] = pc[q] /\ data'[q] = data[q]
         ]_vars

\* C9 witness: a request was answered while another, with another upload,
\* is in flight.
C9_Witness ==
    /\ last.route = "predictCropDisease"
    /\ last.resp.kind = "ok"
    /\ \E q \in Reqs : pc[q] = "reading" /\ data[q] # last.data

\* C10 (as claimed): every prediction request that has started eventually
\* ends, whatever the serving endpoint does.
C10_AlwaysTerminates ==
    \A r \in Reqs : (pc[r] # "idle") ~> (pc[r] = "idle")

\* C10 (amended): every prediction request that has started eventually ends,
\* unless an outbound POST stays unanswered for ever.
C10_TerminatesIfAnswered ==
    \/ \E q \in Reqs : <>[](pc[q] = "posting")
    \/ \A r \in Reqs : (pc[r] # "idle") ~> (pc[r] = "idle")

\* C10 witness: a request that went through the outbound POST has ended.
C10_Witness ==
    /\ last.route = "predict"
    /\ last.got # <<>>
    /\ \A r \in Reqs : pc[r] = "idle"

====
